---- MODULE Spec2Model ----
(***************************************************************************)
(* Model of blog/views.py: three Django view functions, each of which      *)
(* calls django.shortcuts.render once and returns what it returns.         *)
(*                                                                         *)
(* Several framework workers run the views concurrently; every line of a   *)
(* view body is one step, so the calls interleave line by line.  The       *)
(* renderer is the external collaborator: it finds the template on disk    *)
(* or raises TemplateDoesNotExist, and uses status 200 when given none.    *)
(*                                                                         *)
(* Encodings: a Python dict is the set of its <<key, value>> pairs; an     *)
(* optional keyword argument is a set with at most one element ({} = not   *)
(* passed).                                                                *)
(***************************************************************************)
EXTENDS Integers, Sequences, FiniteSets, TLC

\* ---------------------------------------------------------------- bounds
NumWorkers == 2
MaxCalls == 3

Workers == 1..NumWorkers
Methods == {"GET", "POST"}
Requests == [method : Methods]
Exceptions == {"Http404", "Resolver404"}
NoException == "<no exception argument>"
Unbound == "<unbound>"

\* ------------------------------------------------- the renderer (external)
TemplateNames == {"post_list.html", "404.html", "500.html"}
DefaultStatus == 200

StatusOf(status) == IF status = {} THEN DefaultStatus ELSE CHOOSE s \in status : TRUE

\* render(request, template_name, context=None, status=None): the response
\* carries the template rendered with the context for the request, or the
\* call raises when the template does not exist.
render(request, template_name, context, status, installed) ==
    IF template_name \in installed
    THEN [kind |-> "response", template_name |-> template_name,
          context |-> context, request |-> request, status |-> StatusOf(status)]
    ELSE [kind |-> "TemplateDoesNotExist", template_name |-> template_name,
          context |-> {}, request |-> request, status |-> 0]

NoResult == [kind |-> "none", template_name |-> "", context |-> {},
             request |-> [method |-> "GET"], status |-> 0]

\* ------------------------------------------------------------- the views
Handlers == {"post_list", "custom_page_not_found_view", "custom_500_view"}
Keys == [handler : {"post_list", "custom_500_view"}, request : Requests,
         exception : {NoException}]
        \cup [handler : {"custom_page_not_found_view"}, request : Requests,
              exception : Exceptions]
NoArgs == [request |-> NoResult.request, template_name |-> "", context |-> {},
           status |-> {}]
NoEntry == [seen |-> FALSE, solo |-> FALSE, args |-> NoArgs, ret |-> NoResult]

\* pc        where each worker is in the view it runs
\* handler   the view the worker runs
\* argv      the arguments as the framework passed them
\* request, exception, post   the frame: parameters and the local of post_list
\* rendered  the renderer calls of the current view call, with what they gave
\* result    what the view call ended with (response or uncaught exception)
\* templates the template files that exist
\* History: ncalls counts the calls started; overlapped tells that another
\* call was in a view body when this one rendered; first keeps, per
\* view and arguments, the first finished call: whether it was the only call
\* started by then (solo), what it handed the renderer and how it ended.
VARIABLES pc, handler, argv, request, exception, post, rendered, result,
          templates, overlapped, first, ncalls

vars == <<pc, handler, argv, request, exception, post, rendered, result,
          templates, overlapped, first, ncalls>>

InBody(p) == p \in {"L9", "L10", "L13", "L16"}
Key(w) == [handler |-> handler[w], request |-> argv[w].request,
           exception |-> argv[w].exception]
Record(w, args, ret) ==
    IF first[Key(w)].seen
    THEN first
    ELSE [first EXCEPT ![Key(w)] = [seen |-> TRUE, solo |-> (ncalls = 1),
                                    args |-> args, ret |-> ret]]
Overlap(w) == [overlapped EXCEPT ![w] = \E v \in Workers \ {w} : InBody(pc[v])]

\* Each operator that models a line of a view is preceded by faulty
\* variants of that line; the properties below are shown to tell them apart.

\* line 9: post = "post"
post_value_counting(w) == IF ncalls > 1 THEN "post again" ELSE "post"
post_value(w) == "post"

AssignPostShared(w) == [v \in Workers |-> post_value(w)]
AssignPost(w) == [post EXCEPT ![w] = post_value(w)]

\* line 10: render(request, 'post_list.html', {'posts': post})
post_list_args_key(req, p) ==
    [request |-> req, template_name |-> "post_list.html",
     context |-> {<<"post", p>>}, status |-> {}]
post_list_args_status(req, p) ==
    [request |-> req, template_name |-> "post_list.html",
     context |-> {<<"posts", p>>}, status |-> {404}]
post_list_args_method(req, p) ==
    [request |-> req, template_name |-> "post_list.html",
     context |-> {<<"posts", p>>, <<"method", req.method>>}, status |-> {}]
post_list_args_copy(req, p) ==
    [request |-> [req EXCEPT !.method = "GET"], template_name |-> "post_list.html",
     context |-> {<<"posts", p>>}, status |-> {}]
post_list_args(req, p) ==
    [request |-> req, template_name |-> "post_list.html",
     context |-> {<<"posts", p>>}, status |-> {}]

\* line 13: render(request, '404.html', status=404)
custom_page_not_found_view_args_exc(req, exc) ==
    [request |-> req, template_name |-> "404.html", context |-> {},
     status |-> IF exc = "Resolver404" THEN {400} ELSE {404}]
custom_page_not_found_view_args_ctx(req, exc) ==
    [request |-> req, template_name |-> "404.html",
     context |-> {<<"exception", exc>>}, status |-> {404}]
custom_page_not_found_view_args(req, exc) ==
    [request |-> req, template_name |-> "404.html", context |-> {},
     status |-> {404}]

\* line 16: render(request, '500.html', status=500)
custom_500_view_args_nostatus(req) ==
    [request |-> req, template_name |-> "500.html", context |-> {},
     status |-> {}]
custom_500_view_args(req) ==
    [request |-> req, template_name |-> "500.html", context |-> {},
     status |-> {500}]

Init ==
    /\ pc = [w \in Workers |-> "idle"]
    /\ handler = [w \in Workers |-> "none"]
    /\ argv = [w \in Workers |-> [request |-> NoResult.request, exception |-> NoException]]
    /\ request = [w \in Workers |-> NoResult.request]
    /\ exception = [w \in Workers |-> NoException]
    /\ post = [w \in Workers |-> Unbound]
    /\ rendered = [w \in Workers |-> <<>>]
    /\ result = [w \in Workers |-> NoResult]
    /\ templates \in SUBSET TemplateNames
    /\ overlapped = [w \in Workers |-> FALSE]
    /\ first = [k \in Keys |-> NoEntry]
    /\ ncalls = 0

\* The framework calls view h on worker w, the first worker that is not in
\* a view body (workers are interchangeable): a fresh frame holding the
\* arguments, control at the first line of the body.
Enter(w, h, req, exc, line) ==
    /\ pc[w] \in {"idle", "returned", "raised"}
    /\ \A v \in Workers : v < w => InBody(pc[v])
    /\ ncalls < MaxCalls
    /\ ncalls' = ncalls + 1
    /\ pc' = [pc EXCEPT ![w] = line]
    /\ handler' = [handler EXCEPT ![w] = h]
    /\ argv' = [argv EXCEPT ![w] = [request |-> req, exception |-> exc]]
    /\ request' = [request EXCEPT ![w] = req]
    /\ exception' = [exception EXCEPT ![w] = exc]
    /\ post' = [post EXCEPT ![w] = Unbound]
    /\ rendered' = [rendered EXCEPT ![w] = <<>>]
    /\ result' = [result EXCEPT ![w] = NoResult]
    /\ overlapped' = [overlapped EXCEPT ![w] = FALSE]
    /\ UNCHANGED <<templates, first>>

\* return render(...): one call of the renderer; its response is the
\* view's return value, its exception leaves the view uncaught.
ReturnRender(w, args) ==
    LET ret == render(args.request, args.template_name, args.context,
                      args.status, templates)
    IN /\ rendered' = [rendered EXCEPT ![w] = Append(@, [args |-> args, ret |-> ret])]
       /\ result' = [result EXCEPT ![w] = ret]
       /\ pc' = [pc EXCEPT ![w] = IF ret.kind = "response" THEN "returned" ELSE "raised"]
       /\ first' = Record(w, args, ret)
       /\ overlapped' = Overlap(w)
       /\ UNCHANGED <<handler, argv, request, exception, templates, ncalls>>

post_list_call(w, req) == Enter(w, "post_list", req, NoException, "L9")

post_list_L9(w) ==
    /\ pc[w] = "L9"
    /\ post' = AssignPost(w)
    /\ pc' = [pc EXCEPT ![w] = "L10"]
    /\ UNCHANGED <<handler, argv, request, exception, rendered, result,
                   templates, overlapped, first, ncalls>>

post_list_L10_guarded(w) ==
    /\ pc[w] = "L10"
    /\ LET args == post_list_args(request[w], post[w])
           ret == render(args.request, args.template_name, args.context,
                         args.status, templates)
           out == IF ret.kind = "response" THEN ret
                  ELSE [ret EXCEPT !.kind = "response", !.status = DefaultStatus]
       IN /\ rendered' = [rendered EXCEPT ![w] = Append(@, [args |-> args, ret |-> ret])]
          /\ result' = [result EXCEPT ![w] = out]
          /\ pc' = [pc EXCEPT ![w] = "returned"]
          /\ first' = Record(w, args, out)
          /\ overlapped' = Overlap(w)
    /\ UNCHANGED <<handler, argv, request, exception, post, templates, ncalls>>

post_list_L10(w) ==
    /\ pc[w] = "L10"
    /\ ReturnRender(w, post_list_args(request[w], post[w]))
    /\ UNCHANGED post

custom_page_not_found_view_call(w, req, exc) ==
    Enter(w, "custom_page_not_found_view", req, exc, "L13")

custom_page_not_found_view_L13(w) ==
    /\ pc[w] = "L13"
    /\ ReturnRender(w, custom_page_not_found_view_args(request[w], exception[w]))
    /\ UNCHANGED post

custom_500_view_call(w, req) == Enter(w, "custom_500_view", req, NoException, "L16")

custom_500_view_L16(w) ==
    /\ pc[w] = "L16"
    /\ ReturnRender(w, custom_500_view_args(request[w]))
    /\ UNCHANGED post

Next ==
    \/ \E w \in Workers, req \in Requests : post_list_call(w, req)
    \/ \E w \in Workers : post_list_L9(w)
    \/ \E w \in Workers : post_list_L10(w)
    \/ \E w \in Workers, req \in Requests, exc \in Exceptions :
           custom_page_not_found_view_call(w, req, exc)
    \/ \E w \in Workers : custom_page_not_found_view_L13(w)
    \/ \E w \in Workers, req \in Requests : custom_500_view_call(w, req)
    \/ \E w \in Workers : custom_500_view_L16(w)

Spec == Init /\ [][Next]_vars

Done(w) == pc[w] \in {"returned", "raised"}
Ran(w, h) == Done(w) /\ handler[w] = h
Frame(w) == <<handler[w], argv[w], request[w], exception[w], post[w],
              rendered[w], result[w]>>
FirstOf(h) == {k \in Keys : k.handler = h /\ first[k].seen}
ErrorViews == {"custom_page_not_found_view", "custom_500_view"}

\* ------------------------------------------------------------ properties

\* C1: custom_page_not_found_view hands the renderer template '404.html'
\* with status 404 and returns its response, which carries status 404,
\* whatever the exception argument was.
C1_NotFound404 ==
    /\ \A w \in Workers :
          Ran(w, "custom_page_not_found_view") =>
              /\ rendered[w][1].args.template_name = "404.html"
              /\ rendered[w][1].args.status = {404}
              /\ pc[w] = "returned" =>
                    /\ result[w].kind = "response"
                    /\ result[w].template_name = "404.html"
                    /\ result[w].status = 404
    /\ \A k1, k2 \in FirstOf("custom_page_not_found_view") :
          k1.request = k2.request =>
              /\ first[k1].args = first[k2].args
              /\ first[k1].ret = first[k2].ret

C1_Witness ==
    \E k1, k2 \in FirstOf("custom_page_not_found_view") :
        /\ k1.exception = "Http404" /\ k2.exception = "Resolver404"
        /\ first[k1].ret.kind = "response" /\ first[k2].ret.kind = "response"
        /\ first[k1].ret.status = 404 /\ first[k2].ret.status = 404

\* C2: custom_500_view hands the renderer template '500.html' with status
\* 500 and returns its response, which carries status 500.
C2_ServerError500 ==
    \A w \in Workers :
        Ran(w, "custom_500_view") =>
            /\ Len(rendered[w]) = 1
            /\ rendered[w][1].args.template_name = "500.html"
            /\ rendered[w][1].args.status = {500}
            /\ pc[w] = "returned" =>
                  /\ result[w].kind = "response"
                  /\ result[w].template_name = "500.html"
                  /\ result[w].status = 500

C2_Witness ==
    \E w \in Workers :
        /\ Ran(w, "custom_500_view") /\ pc[w] = "returned"
        /\ result[w].status = 500

\* C3: post_list renders 'post_list.html' with a context of exactly one
\* key, 'posts', bound to the string "post", the same for every request.
C3_PostListContext ==
    /\ \A w \in Workers :
          Ran(w, "post_list") =>
              /\ rendered[w][1].args.template_name = "post_list.html"
              /\ Cardinality(rendered[w][1].args.context) = 1
              /\ rendered[w][1].args.context = {<<"posts", "post">>}
              /\ pc[w] = "returned" =>
                    /\ result[w].template_name = "post_list.html"
                    /\ result[w].context = {<<"posts", "post">>}
    /\ \A k1, k2 \in FirstOf("post_list") :
          first[k1].args.context = first[k2].args.context

C3_Witness ==
    \E k1, k2 \in FirstOf("post_list") :
        /\ k1.request # k2.request
        /\ first[k1].ret.kind = "response" /\ first[k2].ret.kind = "response"
        /\ first[k1].ret.context = {<<"posts", "post">>}
        /\ first[k2].ret.context = {<<"posts", "post">>}

\* C4: post_list passes no status, so its response carries the renderer's
\* default 200, never 404 or 500.
C4_PostListStatus200 ==
    \A w \in Workers :
        Ran(w, "post_list") =>
            /\ \A k \in DOMAIN rendered[w] : rendered[w][k].args.status = {}
            /\ pc[w] = "returned" =>
                  /\ result[w].status = 200
                  /\ result[w].status \notin {404, 500}

C4_Witness ==
    \E w \in Workers :
        /\ Ran(w, "post_list") /\ pc[w] = "returned"
        /\ result[w].status = 200

\* C5: idempotence: a later call of a view with the same request (and
\* exception) hands the renderer the same template, context and status as
\* the first such call, and ends the same way.
C5_Idempotent ==
    \A w \in Workers :
        Done(w) =>
            /\ first[Key(w)].seen
            /\ rendered[w][1].args.template_name = first[Key(w)].args.template_name
            /\ rendered[w][1].args.context = first[Key(w)].args.context
            /\ rendered[w][1].args.status = first[Key(w)].args.status
            /\ result[w] = first[Key(w)].ret

C5_Witness ==
    \E w, v \in Workers :
        /\ w # v /\ Done(w) /\ Done(v)
        /\ Key(w) = Key(v)
        /\ \E k \in Keys : k.handler # handler[w] /\ first[k].seen
        /\ result[w] = first[Key(w)].ret /\ result[v] = first[Key(v)].ret

\* C6: reentrancy: a step of one view call changes no other call's frame and
\* not the templates, and a call that ran while others were in progress gives
\* what the same call gave when it ran alone.
C6_Reentrant ==
    [][ /\ \A w \in Workers : pc'[w] = pc[w] => Frame(w)' = Frame(w)
        /\ templates' = templates
        /\ \A w \in Workers :
              (Done(w)' /\ first'[Key(w)'].solo) =>
                  /\ rendered'[w][1].args = first'[Key(w)'].args
                  /\ result'[w] = first'[Key(w)'].ret
      ]_vars

C6_Witness ==
    \E w \in Workers :
        /\ Done(w) /\ overlapped[w]
        /\ first[Key(w)].solo
        /\ result[w] = first[Key(w)].ret

\* C7 as stated: post_list never ends in an error outcome, even when the
\* render call fails.
C7_NeverErrors ==
    \A w \in Workers :
        Ran(w, "post_list") => (pc[w] = "returned" /\ result[w].kind = "response")

\* C7 amended: post_list has no error condition of its own: it returns the
\* rendered response exactly when the render call succeeds, and when the
\* render call raises (template missing) that exception leaves post_list
\* uncaught and unchanged.
C7_ErrorsOnlyFromRender ==
    \A w \in Workers :
        Ran(w, "post_list") =>
            /\ pc[w] = "raised" <=> "post_list.html" \notin templates
            /\ pc[w] = "returned" => result[w].kind = "response"
            /\ pc[w] = "raised" =>
                  /\ result[w].kind = "TemplateDoesNotExist"
                  /\ result[w] = rendered[w][Len(rendered[w])].ret

C7_Witness ==
    \E w \in Workers :
        /\ Ran(w, "post_list") /\ pc[w] = "raised"
        /\ result[w].kind = "TemplateDoesNotExist"

\* C8: what a view hands the renderer (template, context, status) does not
\* depend on the request: two runs of a view on different requests hand it
\* the same three values.
C8_RequestIndependent ==
    \A k1, k2 \in Keys :
        (k1.handler = k2.handler /\ first[k1].seen /\ first[k2].seen) =>
            /\ first[k1].args.template_name = first[k2].args.template_name
            /\ first[k1].args.context = first[k2].args.context
            /\ first[k1].args.status = first[k2].args.status

C8_Witness ==
    /\ \E k1, k2 \in FirstOf("post_list") : k1.request.method # k2.request.method
    /\ \E k \in FirstOf("custom_500_view") : k.request.method = "POST"

\* C9: a view call makes exactly one renderer call, with the request it
\* received, returns that call's result unchanged, and leaves the request
\* and the exception as it received them.
C9_OneRenderSameRequest ==
    \A w \in Workers :
        /\ InBody(pc[w]) => Len(rendered[w]) = 0
        /\ (InBody(pc[w]) \/ Done(w)) =>
              /\ request[w] = argv[w].request
              /\ exception[w] = argv[w].exception
        /\ Done(w) =>
              /\ Len(rendered[w]) = 1
              /\ rendered[w][1].args.request = argv[w].request
              /\ result[w] = rendered[w][1].ret
              /\ result[w].request = argv[w].request

C9_Witness ==
    \E w \in Workers :
        /\ Ran(w, "post_list") /\ pc[w] = "returned"
        /\ argv[w].request.method = "POST"
        /\ Len(rendered[w]) = 1
        /\ result[w].request = argv[w].request

\* C10: the two error views pass no context: their templates are rendered
\* with an empty context, so neither the exception nor the placeholder
\* reaches them.
C10_ErrorViewsEmptyContext ==
    \A w \in Workers :
        (Done(w) /\ handler[w] \in ErrorViews) =>
            /\ rendered[w][1].args.context = {}
            /\ result[w].context = {}

C10_Witness ==
    /\ \E k \in FirstOf("custom_page_not_found_view") :
           first[k].ret.kind = "response" /\ first[k].ret.context = {}
    /\ \E k \in FirstOf("custom_500_view") :
           first[k].ret.kind = "response" /\ first[k].ret.context = {}
====
